---- MODULE Spec2Model ----
(***************************************************************************)
(* Crawl-and-ingest pipeline of the IMDb crawler: the adaptive backoff of  *)
(* GraphQLClient, the fetch loop of run_crawl_pipeline, the checkpoint     *)
(* store (ProgressManager) and the streaming sink (StreamingOutputHandler).*)
(*                                                                         *)
(* Units.  Latencies and the *_ms configuration values are whole           *)
(* milliseconds.  The *_sec delays of the client are kept in half          *)
(* milliseconds (seconds * 2000), so that backoff_step_sec / 2.0 is exact. *)
(***************************************************************************)
EXTENDS Integers, Sequences, FiniteSets, TLC

VARIABLES
    \* Config (service/config.py), fixed for a run
    page_delay_ms, backoff_threshold_ms, backoff_step_ms, backoff_max_ms,
    \* GraphQLClient
    current_delay_sec,
    \* history of the last update_backoff call
    prev_delay_sec, last_latency, calls, fastOnly,
    \* arguments of run_crawl_pipeline
    resume, streaming, max_pages,
    \* ProgressManager: the content of the state file
    state_file,
    \* run_crawl_pipeline: position and locals
    pc, page_no, after, collected, next_task, consecutive_errors,
    resp, inflight,
    \* StreamingOutputHandler
    buffer, disk, record_count, file_handle, uuids,
    \* history of the run: the state file at the start, the save calls made,
    \* the requests issued, why the loop ended
    state_file0, saves, first_request, stop_reason, last_page,
    \* history of the checkpoint store: the last call made on it
    store_call,
    \* history of the classifier: the classification failures since the last
    \* page that passed, and the request that failed last
    failures, failed,
    \* history of the sink: the last call made on it and whether an I/O fault
    \* has hit it
    sink_call, io_failed,
    \* history of the suspensions: how the loop was suspended since the last
    \* request completed
    last_sleep

cfgVars == <<page_delay_ms, backoff_threshold_ms, backoff_step_ms, backoff_max_ms>>
backoffHist == <<prev_delay_sec, last_latency, calls, fastOnly>>
argVars == <<resume, streaming, max_pages>>
loopVars == <<page_no, after, collected, next_task, consecutive_errors,
              resp, inflight>>
sinkVars == <<buffer, disk, record_count, file_handle, uuids>>
histVars == <<state_file0, saves, store_call, first_request, stop_reason,
              last_page>>
auditVars == <<failures, failed, sink_call, io_failed, last_sleep>>
runVars == <<argVars, state_file, pc, loopVars, sinkVars, histVars, auditVars>>
vars == <<cfgVars, current_delay_sec, backoffHist, runVars>>

(***************************************************************************)
(* Bounds of the model                                                     *)
(***************************************************************************)
MaxCfgMs == 3       \* configuration values range over -1..MaxCfgMs
MaxLatencyMs == 4   \* request latencies range over 0..MaxLatencyMs
MaxCalls == 2       \* the call counter wraps from here back to 1
NPages == 3         \* the catalog has NPages pages
ItemsPerPage == 2   \* items on every page of the catalog
MaxLimit == 2       \* integer page limits range over 0..MaxLimit
BufferSize == 3     \* buffer_size of the streaming sink
MaxSinkRecords == 4 \* records added to a sink that is driven alone
MaxSaves == 1       \* save calls on a checkpoint store that is driven alone

Min(a, b) == IF a <= b THEN a ELSE b
Max(a, b) == IF a >= b THEN a ELSE b

CfgValues == -1..MaxCfgMs
Latencies == 0..MaxLatencyMs

(***************************************************************************)
(* GraphQLClient.__init__: the delays derived from the configuration.      *)
(* x / 1000.0 seconds is 2 * x half-milliseconds.                          *)
(***************************************************************************)
base_delay_sec == Max(0, 2 * page_delay_ms)
backoff_step_sec == Max(0, 2 * backoff_step_ms)
backoff_max_sec == Max(0, 2 * backoff_max_ms)

(***************************************************************************)
(* GraphQLClient.update_backoff: the delay after a request of t ms.        *)
(***************************************************************************)
NextDelay_noFloor(cur, t) ==
    IF backoff_threshold_ms > 0
    THEN IF t > backoff_threshold_ms
         THEN Min(backoff_max_sec, cur + backoff_step_sec)
         ELSE IF cur > base_delay_sec /\ 2 * t < backoff_threshold_ms
              THEN cur - (backoff_step_sec \div 2)
              ELSE cur
    ELSE cur

NextDelay(cur, t) ==
    IF backoff_threshold_ms > 0
    THEN IF t > backoff_threshold_ms
         THEN Min(backoff_max_sec, cur + backoff_step_sec)
         ELSE IF cur > base_delay_sec /\ 2 * t < backoff_threshold_ms
              THEN Max(base_delay_sec, cur - (backoff_step_sec \div 2))
              ELSE cur
    ELSE cur

(***************************************************************************)
(* GraphQLClient.should_pipeline                                           *)
(***************************************************************************)
should_pipeline_strict(t) == t < backoff_threshold_ms

should_pipeline(t) == t <= backoff_threshold_ms

(***************************************************************************)
(* Data of a run                                                           *)
(***************************************************************************)
\* Cursors: None, or the endCursor of catalog page k (which locates page k+1).
None == 0
Cursors == 0..NPages

\* The state file: absent, unreadable, or a saved state.
Absent == [kind |-> "absent"]
Corrupt == [kind |-> "corrupt"]
Empty == [kind |-> "empty"]
Saved(c, p) == [kind |-> "state", cursor |-> c, page_no |-> p]

\* pages_done % 10 == 0: the page cadence of checkpoints and uploads.
CheckpointEvery == 10
max_consecutive_errors == 5

\* page_no values a state file found at the start may hold: the first pages
\* and the pages around the checkpoint cadence.
SavedPageNos == {0, 1, CheckpointEvery - 1}
StateFiles ==
    {Absent, Corrupt} \cup {Saved(c, p) : c \in Cursors, p \in SavedPageNos}

\* max_pages: an int, or a string such as "all".
IntArg(n) == [type |-> "int", int |-> n]
StrArg(x) == [type |-> "str", str |-> x]
MaxPagesArgs == {StrArg("all")} \cup {IntArg(n) : n \in 0..MaxLimit}

unlimited_always == TRUE

\* run_crawl_pipeline, lines 117-121
unlimited ==
    IF max_pages.type = "int"
    THEN max_pages.int <= 0
    ELSE max_pages.str \in {"0", "all", "unlimited"}

NoTask == [status |-> "none"]
NoResp == [kind |-> "none"]
NoRequest == [via |-> "none"]
NoFailure == [kind |-> "none"]
\* No suspension since the last request completed (or since the start).
NoSleep == "none"
NoCall == [op |-> "none"]

\* The latencies a request of a run can take: fast, exactly at a positive
\* threshold, slow.
RunLatencies == {0, MaxLatencyMs - 1, MaxLatencyMs}

\* What the endpoint can answer to a request carrying cursor c.  A page
\* response carries catalog page c+1; its pageInfo may lack hasNextPage or
\* endCursor; the last page of the catalog points nowhere further.
PageInfos(p) ==
    IF p < NPages
    THEN {[hasNextPage |-> h, endCursor |-> e] :
             h \in {"true", "false", "absent"}, e \in {None, p}}
    ELSE {[hasNextPage |-> "false", endCursor |-> e] : e \in {None, p}}
         \cup {[hasNextPage |-> h, endCursor |-> None] : h \in {"true", "absent"}}

PageResponses(c) ==
    IF c < NPages
    THEN {[kind |-> "response", status |-> 200, retry_after |-> FALSE,
           body |-> "page", pos |-> c + 1, pageInfo |-> pi] :
             pi \in PageInfos(c + 1)}
    ELSE {}

OtherResponses ==
    {[kind |-> "response", status |-> 200, retry_after |-> FALSE, body |-> b] :
        b \in {"no_items", "null_data", "errors", "not_json"}}
    \cup {[kind |-> "response", status |-> 429, retry_after |-> FALSE, body |-> "none"],
          [kind |-> "response", status |-> 500, retry_after |-> FALSE, body |-> "none"],
          [kind |-> "network_error"],
          [kind |-> "other_error"]}

\* The outcome of fetch_page(after): a response with its latency, or a fault.
Outcomes(c) ==
    {[r |-> r, t_req_ms |-> t, cursor |-> c] :
        r \in PageResponses(c), t \in RunLatencies}
    \cup {[r |-> r, t_req_ms |-> 0, cursor |-> c] : r \in OtherResponses}

(***************************************************************************)
(* ErrorHandler.is_rate_limited, Response.raise_for_status,                *)
(* validate_graphql_response, find_title_list, find_page_info, find_cursor *)
(***************************************************************************)
is_rate_limited(r) == r.status \in {429, 503, 502} \/ r.retry_after
is_error_status(r) == r.status >= 400
validate_graphql_response(r) == r.body \in {"page", "no_items", "null_data"}
find_title_list(r) ==
    IF r.body = "page" THEN [j \in 1..ItemsPerPage |-> <<r.pos, j>>] ELSE <<>>
find_page_info(r) == IF r.body = "page" THEN r.pageInfo ELSE [hasNextPage |-> "absent", endCursor |-> None]
find_cursor(r) == find_page_info(r).endCursor

\* TitleNode.transform: the record of an item, labelled page_no + 1
transform(item, pn) == [page |-> pn + 1, item |-> item]

(***************************************************************************)
(* ProgressManager                                                         *)
(***************************************************************************)
load_skipsNullCursor ==
    IF state_file.kind = "state" /\ state_file.cursor # None
    THEN state_file
    ELSE Absent

\* load(): None when the file is absent or cannot be parsed
load == IF state_file.kind = "state" THEN state_file ELSE Absent

\* save(cursor, page_no, records): best effort; a failure is logged and the
\* call returns.  The file is opened for writing (truncated) before the
\* state is dumped into it.
SaveOutcomes == {"ok", "open_failed", "dump_failed"}

save_raises(c, p, how) ==
    /\ saves' = Append(saves, [cursor |-> c, page_no |-> p, how |-> how])
    /\ \E o \in SaveOutcomes :
        /\ state_file' = CASE o = "ok" -> Saved(c, p)
                           [] o = "open_failed" -> state_file
                           [] OTHER -> Corrupt
        /\ store_call' = [op |-> "save", how |-> how, outcome |-> o,
                          raised |-> (o # "ok"), prev |-> state_file,
                          new |-> Saved(c, p)]

save(c, p, how) ==
    /\ saves' = Append(saves, [cursor |-> c, page_no |-> p, how |-> how])
    /\ \E o \in SaveOutcomes :
        /\ state_file' = CASE o = "ok" -> Saved(c, p)
                           [] o = "open_failed" -> state_file
                           [] OTHER -> Corrupt
        /\ store_call' = [op |-> "save", how |-> how, outcome |-> o,
                          raised |-> FALSE, prev |-> state_file,
                          new |-> Saved(c, p)]

\* The process is killed inside save(c, p): before the file is opened, after
\* open(..., "w") has truncated it, in the middle of json.dump, or after the
\* dump.  What the file holds afterwards.
KillPoints == {"before_open", "after_open", "mid_dump", "after_dump"}
killed_save(c, p, k) ==
    CASE k = "before_open" -> state_file
      [] k = "after_open" -> Empty
      [] k = "mid_dump" -> Corrupt
      [] OTHER -> Saved(c, p)

\* No run of the pipeline: the client alone.
IdleRun ==
    /\ resume = FALSE /\ streaming = FALSE /\ max_pages = StrArg("all")
    /\ pc = "client"
    /\ page_no = 0 /\ after = None /\ collected = <<>>
    /\ next_task = NoTask /\ consecutive_errors = 0
    /\ resp = NoResp /\ inflight = NoRequest
    /\ buffer = <<>> /\ disk = <<>> /\ record_count = 0
    /\ file_handle = FALSE /\ uuids = 0
    /\ saves = <<>> /\ first_request = NoRequest
    /\ stop_reason = "none" /\ last_page = NoResp
    /\ failures = 0 /\ failed = NoFailure
    /\ sink_call = NoCall /\ io_failed = FALSE
    /\ last_sleep = NoSleep
    /\ store_call = NoCall

NoRun == state_file = Absent /\ state_file0 = Absent /\ IdleRun

(***************************************************************************)
(* The client alone: any sequence of update_backoff calls.                 *)
(***************************************************************************)
InitBackoff ==
    /\ page_delay_ms \in CfgValues
    /\ backoff_threshold_ms \in CfgValues
    /\ backoff_step_ms \in CfgValues
    /\ backoff_max_ms \in CfgValues
    /\ current_delay_sec = base_delay_sec
    /\ prev_delay_sec = base_delay_sec
    /\ last_latency = 0
    /\ calls = 0
    /\ fastOnly = FALSE
    /\ NoRun

update_backoff(t) ==
    current_delay_sec' = NextDelay(current_delay_sec, t)

UpdateBackoffCall ==
    \E t \in Latencies :
        /\ fastOnly => 2 * t < backoff_threshold_ms
        /\ update_backoff(t)
        /\ prev_delay_sec' = current_delay_sec
        /\ last_latency' = t
        /\ calls' = IF calls >= MaxCalls THEN 1 ELSE calls + 1
        /\ UNCHANGED <<cfgVars, fastOnly, runVars>>

\* From here on every request is fast (latency below half the threshold).
OnlyFastFromNow ==
    /\ ~fastOnly
    /\ fastOnly' = TRUE
    /\ UNCHANGED <<cfgVars, current_delay_sec, prev_delay_sec, last_latency,
                   calls, runVars>>

NextBackoff == UpdateBackoffCall \/ OnlyFastFromNow

SpecBackoff == InitBackoff /\ [][NextBackoff]_vars

SpecBackoffFair == SpecBackoff /\ WF_vars(UpdateBackoffCall)

(***************************************************************************)
(* StreamingOutputHandler, as functions of the sink's state                *)
(***************************************************************************)
UploadEvery == 10

\* I/O faults of the output file.  A call on the sink runs under a fault
\* point: NoFault, or the number of I/O operations (one write per line, one
\* flush-and-fsync per flush) that succeed before one raises OSError.
NoFault == -1
FaultPoints == NoFault..(BufferSize + 1)

\* One I/O fault at most hits the file of a sink.
FaultChoices == IF io_failed THEN {NoFault} ELSE FaultPoints

\* S3Uploader.upload / upload_to_s3: uploaded, uploader disabled, file
\* missing, or an exception of the client library
UploadOutcomes == {"ok", "disabled", "missing_file", "exception"}

\* The sink's fields, and the course of the call in progress: the fault
\* point, whether an exception is propagating, what close() returned,
\* whether upload_to_s3 ran and what it found when it started.
Sink == [buffer |-> buffer, disk |-> disk, record_count |-> record_count,
         file_handle |-> file_handle, uuids |-> uuids,
         fault |-> NoFault, hit |-> FALSE, raised |-> FALSE,
         result |-> "none", upload |-> "none", pre_upload |-> <<>>]

Faulty(s, f) == [s EXCEPT !.fault = f]

flush_dropsBuffer(s) ==
    IF s.buffer = <<>> \/ ~s.file_handle
    THEN s
    ELSE [s EXCEPT !.buffer = <<>>]

\* flush(): every buffered record is written as one line, the file is
\* flushed and synced, then the buffer is cleared; an I/O error is logged
\* and raised again, with the lines written so far left in the file
flush(s) ==
    IF s.buffer = <<>> \/ ~s.file_handle
    THEN s
    ELSE IF s.fault = NoFault
         THEN [s EXCEPT !.disk = s.disk \o s.buffer, !.buffer = <<>>]
         ELSE IF s.fault > Len(s.buffer)
              THEN [s EXCEPT !.disk = s.disk \o s.buffer, !.buffer = <<>>,
                             !.fault = s.fault - (Len(s.buffer) + 1)]
              ELSE [s EXCEPT !.disk = s.disk \o SubSeq(s.buffer, 1, s.fault),
                             !.fault = NoFault, !.hit = TRUE,
                             !.raised = TRUE]

\* uuid.uuid4(): an identifier never handed out before
uuid4(s) == s.uuids + 1

add_record_noCount(s, rec) ==
    LET t == [s EXCEPT !.file_handle = TRUE,
                       !.buffer = Append(s.buffer,
                                         [uuid |-> uuid4(s), page |-> rec.page,
                                          item |-> rec.item]),
                       !.uuids = uuid4(s)]
    IN  IF Len(t.buffer) >= BufferSize THEN flush(t) ELSE t

\* add_record(record)
add_record(s, rec) ==
    LET t == [s EXCEPT !.file_handle = TRUE,
                       !.buffer = Append(s.buffer,
                                         [uuid |-> uuid4(s), page |-> rec.page,
                                          item |-> rec.item]),
                       !.uuids = uuid4(s),
                       !.record_count = s.record_count + 1]
    IN  IF Len(t.buffer) >= BufferSize THEN flush(t) ELSE t

\* for record in records: self.add_record(record); an exception ends the loop
RECURSIVE add_each(_, _)
add_each(s, recs) ==
    IF recs = <<>> \/ s.raised
    THEN s
    ELSE add_each(add_record(s, Head(recs)), Tail(recs))

upload_to_s3_raises(s, u) ==
    [s EXCEPT !.upload = IF u = "ok" THEN "ok" ELSE "failed",
              !.pre_upload = <<s.buffer, s.disk, s.record_count>>,
              !.raised = (u = "exception")]

\* upload_to_s3(): True when the file was uploaded; a disabled uploader, a
\* missing file and any exception give False
upload_to_s3(s, u) ==
    [s EXCEPT !.upload = IF u = "ok" THEN "ok" ELSE "failed",
              !.pre_upload = <<s.buffer, s.disk, s.record_count>>]

\* add_records(records, page_no): when page_no % 10 == 0 the buffer is
\* flushed and the file is uploaded
add_records(s, recs, pn, u) ==
    LET t == add_each(s, recs)
    IN  IF t.raised \/ pn % UploadEvery # 0
        THEN t
        ELSE IF flush(t).raised THEN flush(t) ELSE upload_to_s3(flush(t), u)

\* close(): the remainder is flushed and the handle is closed; any exception
\* is logged and turned into the result False
close(s) ==
    LET t == IF s.buffer # <<>> THEN flush(s) ELSE s
    IN  IF t.raised
        THEN [t EXCEPT !.raised = FALSE, !.result = "false"]
        ELSE [t EXCEPT !.file_handle = FALSE, !.result = "true"]

\* __exit__(exc_type, exc_val, exc_tb)
exit(s, exc, u) ==
    IF exc THEN close(s) ELSE upload_to_s3(close(s), u)

SetSink(s) ==
    /\ buffer' = s.buffer
    /\ disk' = s.disk
    /\ record_count' = s.record_count
    /\ file_handle' = s.file_handle
    /\ uuids' = s.uuids

\* The call op that took the sink from s0 to s enters the history.
NoteCall(op, s0, s) ==
    /\ sink_call' = [op |-> op, prev |-> sink_call.op,
                     raised |-> s.raised, result |-> s.result,
                     hit |-> s.hit, upload |-> s.upload,
                     pre_upload |-> s.pre_upload,
                     before |-> [buffer |-> s0.buffer, disk |-> s0.disk,
                                 record_count |-> s0.record_count,
                                 file_handle |-> s0.file_handle]]
    /\ io_failed' = (io_failed \/ s.hit)

(***************************************************************************)
(* run_crawl_pipeline                                                      *)
(***************************************************************************)
Init ==
    /\ page_delay_ms \in {0, 1}
    /\ backoff_threshold_ms \in {0, MaxLatencyMs - 1}
    /\ backoff_step_ms = 1
    /\ backoff_max_ms = 2
    /\ current_delay_sec = base_delay_sec
    /\ prev_delay_sec = base_delay_sec
    /\ last_latency = 0
    /\ calls = 0
    /\ fastOnly = FALSE
    /\ resume \in BOOLEAN
    /\ streaming \in BOOLEAN
    /\ max_pages \in MaxPagesArgs
    /\ max_pages = IntArg(0) => ~resume /\ page_delay_ms = 0
    /\ state_file \in IF resume THEN StateFiles ELSE {Absent, Saved(1, 1)}
    /\ state_file0 = state_file
    /\ pc = "init"
    /\ page_no = 0 /\ after = None /\ collected = <<>>
    /\ next_task = NoTask /\ consecutive_errors = 0
    /\ resp = NoResp /\ inflight = NoRequest
    /\ buffer = <<>> /\ disk = <<>> /\ record_count = 0
    /\ file_handle = FALSE /\ uuids = 0
    /\ saves = <<>> /\ first_request = NoRequest
    /\ stop_reason = "none" /\ last_page = NoResp
    /\ failures = 0 /\ failed = NoFailure
    /\ sink_call = NoCall /\ io_failed = FALSE
    /\ last_sleep = NoSleep
    /\ store_call = NoCall

clientVars == <<cfgVars, current_delay_sec, backoffHist>>

Start_forgetsPage ==
    /\ pc = "init"
    /\ LET state == IF resume THEN load ELSE Absent
       IN  IF state.kind = "state"
           THEN after' = state.cursor /\ page_no' = 0
           ELSE after' = None /\ page_no' = 0
    /\ collected' = <<>>
    /\ next_task' = NoTask
    /\ consecutive_errors' = 0
    /\ pc' = "loop"
    /\ UNCHANGED <<cfgVars, current_delay_sec, backoffHist, argVars,
                   state_file, resp, inflight, sinkVars, histVars,
                   auditVars>>

\* lines 108-142: the resume policy
Start ==
    /\ pc = "init"
    /\ LET state == IF resume THEN load ELSE Absent
       IN  IF state.kind = "state"
           THEN after' = state.cursor /\ page_no' = state.page_no
           ELSE after' = None /\ page_no' = 0
    /\ collected' = <<>>
    /\ next_task' = NoTask
    /\ consecutive_errors' = 0
    /\ pc' = "loop"
    /\ UNCHANGED <<clientVars, argVars, state_file, resp, inflight,
                   sinkVars, histVars, auditVars>>

NoteRequest(c) ==
    first_request' = IF first_request = NoRequest
                     THEN [via |-> "first", cursor |-> c]
                     ELSE first_request

CountError(reason) ==
    /\ consecutive_errors' = consecutive_errors + 1
    /\ IF consecutive_errors + 1 >= max_consecutive_errors
       THEN pc' = "cleanup" /\ stop_reason' = reason
       ELSE pc' = "loop" /\ UNCHANGED stop_reason

\* The classification of the request that carried o enters the history.
NoteFailure(kind, o, via, counted) ==
    /\ failed' = [kind |-> kind, cursor |-> o.cursor, via |-> via]
    /\ failures' = failures + counted

Classify_emptyPageAdvances(o, via) ==
    CASE o.r.kind = "network_error" ->
           \* raise NetworkError
           /\ pc' = "fatal" /\ stop_reason' = "network_error"
           /\ NoteFailure("transient_network", o, via, 1)
           /\ UNCHANGED <<consecutive_errors, resp, after>>
      [] o.r.kind = "other_error" ->
           /\ pc' = "cleanup" /\ stop_reason' = "unexpected"
           /\ UNCHANGED <<consecutive_errors, resp, after, failures, failed>>
      [] o.r.kind = "response" /\ is_rate_limited(o.r) ->
           \* await asyncio.sleep(60); the error is counted after the sleep
           /\ pc' = "cooldown"
           /\ NoteFailure("rate_limited", o, via, 0)
           /\ UNCHANGED <<consecutive_errors, stop_reason, resp, after>>
      [] o.r.kind = "response" /\ ~is_rate_limited(o.r)
            /\ is_error_status(o.r) ->
           \* raise HTTPStatusError
           /\ pc' = "fatal" /\ stop_reason' = "http_status"
           /\ NoteFailure("fatal_status", o, via, 1)
           /\ UNCHANGED <<consecutive_errors, resp, after>>
      [] o.r.kind = "response" /\ ~is_rate_limited(o.r)
            /\ ~is_error_status(o.r) /\ o.r.body = "not_json" ->
           /\ pc' = "cleanup" /\ stop_reason' = "unexpected"
           /\ UNCHANGED <<consecutive_errors, resp, after, failures, failed>>
      [] OTHER ->
           IF ~validate_graphql_response(o.r)
           THEN /\ CountError("errors")
                /\ NoteFailure("malformed", o, via, 1)
                /\ UNCHANGED <<resp, after>>
           ELSE /\ consecutive_errors' = 0
                /\ failures' = 0 /\ failed' = NoFailure
                /\ IF o.r.body = "null_data"
                   THEN \* data is null: find_title_list raises AttributeError
                        /\ pc' = "fatal" /\ stop_reason' = "items_error"
                        /\ UNCHANGED <<resp, after>>
                   ELSE IF find_title_list(o.r) = <<>>
                   THEN /\ pc' = "cleanup" /\ stop_reason' = "no_items"
                        /\ after' = find_cursor(o.r)
                        /\ UNCHANGED resp
                   ELSE /\ after' = find_cursor(o.r)
                        /\ resp' = [r |-> o.r, t_req_ms |-> o.t_req_ms,
                                    cursor |-> o.cursor, via |-> via]
                        /\ pc' = "gather"
                        /\ UNCHANGED stop_reason

\* lines 153-204: the outcome o of the awaited fetch is classified; the items
\* of a valid page are found, the cursor is advanced and the transform
\* batch is started
Classify(o, via) ==
    CASE o.r.kind = "network_error" ->
           \* raise NetworkError
           /\ pc' = "fatal" /\ stop_reason' = "network_error"
           /\ NoteFailure("transient_network", o, via, 1)
           /\ UNCHANGED <<consecutive_errors, resp, after>>
      [] o.r.kind = "other_error" ->
           /\ pc' = "cleanup" /\ stop_reason' = "unexpected"
           /\ UNCHANGED <<consecutive_errors, resp, after, failures, failed>>
      [] o.r.kind = "response" /\ is_rate_limited(o.r) ->
           \* await asyncio.sleep(60); the error is counted after the sleep
           /\ pc' = "cooldown"
           /\ NoteFailure("rate_limited", o, via, 0)
           /\ UNCHANGED <<consecutive_errors, stop_reason, resp, after>>
      [] o.r.kind = "response" /\ ~is_rate_limited(o.r)
            /\ is_error_status(o.r) ->
           \* raise HTTPStatusError
           /\ pc' = "fatal" /\ stop_reason' = "http_status"
           /\ NoteFailure("fatal_status", o, via, 1)
           /\ UNCHANGED <<consecutive_errors, resp, after>>
      [] o.r.kind = "response" /\ ~is_rate_limited(o.r)
            /\ ~is_error_status(o.r) /\ o.r.body = "not_json" ->
           /\ pc' = "cleanup" /\ stop_reason' = "unexpected"
           /\ UNCHANGED <<consecutive_errors, resp, after, failures, failed>>
      [] OTHER ->
           IF ~validate_graphql_response(o.r)
           THEN /\ CountError("errors")
                /\ NoteFailure("malformed", o, via, 1)
                /\ UNCHANGED <<resp, after>>
           ELSE /\ consecutive_errors' = 0
                /\ failures' = 0 /\ failed' = NoFailure
                /\ IF o.r.body = "null_data"
                   THEN \* data is null: find_title_list raises AttributeError
                        /\ pc' = "fatal" /\ stop_reason' = "items_error"
                        /\ UNCHANGED <<resp, after>>
                   ELSE IF find_title_list(o.r) = <<>>
                   THEN /\ pc' = "cleanup" /\ stop_reason' = "no_items"
                        /\ UNCHANGED <<resp, after>>
                   ELSE /\ after' = find_cursor(o.r)
                        /\ resp' = [r |-> o.r, t_req_ms |-> o.t_req_ms,
                                    cursor |-> o.cursor, via |-> via]
                        /\ pc' = "gather"
                        /\ UNCHANGED stop_reason

Fetch_ignoresTask ==
    /\ pc = "loop"
    /\ inflight' = [via |-> "direct", cursor |-> after]
    /\ NoteRequest(after)
    /\ pc' = "await"
    /\ UNCHANGED <<resp, after, consecutive_errors, stop_reason,
                   failures, failed>>
    /\ UNCHANGED <<clientVars, argVars, state_file, page_no, collected,
                   next_task, sinkVars, state_file0, saves, store_call,
                   last_page, sink_call, io_failed, last_sleep>>

\* lines 145-151: fetch_page(aclient, after), or await the prefetch task; a
\* task that is done hands out its result again
Fetch ==
    /\ pc = "loop"
    /\ CASE next_task.status = "none" ->
              /\ inflight' = [via |-> "direct", cursor |-> after]
              /\ NoteRequest(after)
              /\ pc' = "await"
              /\ UNCHANGED <<resp, after, consecutive_errors, stop_reason,
                             failures, failed>>
         [] next_task.status = "pending" ->
              /\ inflight' = [via |-> "task", cursor |-> next_task.cursor]
              /\ NoteRequest(next_task.cursor)
              /\ pc' = "await"
              /\ UNCHANGED <<resp, after, consecutive_errors, stop_reason,
                             failures, failed>>
         [] OTHER ->
              /\ Classify(next_task.result, "task")
              /\ UNCHANGED <<inflight, first_request>>
    /\ UNCHANGED <<clientVars, argVars, state_file, page_no, collected,
                   next_task, sinkVars, state_file0, saves, store_call,
                   last_page, sink_call, io_failed, last_sleep>>

\* GraphQLClient.fetch_page completes: the request in flight is answered
Respond ==
    /\ pc = "await"
    /\ \E o \in Outcomes(inflight.cursor) :
        /\ next_task' = IF inflight.via = "task"
                        THEN [status |-> "done", cursor |-> inflight.cursor,
                              result |-> o]
                        ELSE next_task
        /\ Classify(o, inflight.via)
    /\ inflight' = NoRequest
    /\ last_sleep' = NoSleep
    /\ UNCHANGED <<clientVars, argVars, state_file, page_no, collected,
                   sinkVars, state_file0, saves, store_call, first_request,
                   last_page, sink_call, io_failed>>

Cooldown_skipsPage ==
    /\ pc = "cooldown"
    /\ CountError("errors")
    /\ failures' = failures + 1
    /\ last_sleep' = "cooldown"
    /\ page_no' = page_no + 1
    /\ UNCHANGED <<clientVars, argVars, state_file, after, collected,
                   next_task, resp, inflight, sinkVars, state_file0,
                   saves, store_call, first_request, last_page, failed,
                   sink_call, io_failed>>

\* lines 155-160: the 60 s pause is over, the error is counted
Cooldown ==
    /\ pc = "cooldown"
    /\ CountError("errors")
    /\ failures' = failures + 1
    /\ last_sleep' = "cooldown"
    /\ UNCHANGED <<clientVars, argVars, state_file, page_no, after, collected,
                   next_task, resp, inflight, sinkVars, state_file0,
                   saves, store_call, first_request, last_page, failed,
                   sink_call,
                   io_failed>>

StopCheck_absentStops(cur, has_next, pages_done) ==
    CASE cur = None -> "no_cursor"
      [] has_next # "true" -> "has_next_false"
      [] ~unlimited /\ max_pages.type = "str" -> "type_error"
      [] ~unlimited /\ pages_done >= max_pages.int -> "max_pages"
      [] OTHER -> "none"

\* lines 230-238: the stop conditions, in the order they are checked
StopCheck(cur, has_next, pages_done) ==
    CASE cur = None -> "no_cursor"
      [] has_next = "false" -> "has_next_false"
      [] ~unlimited /\ max_pages.type = "str" -> "type_error"
      [] ~unlimited /\ pages_done >= max_pages.int -> "max_pages"
      [] OTHER -> "none"

\* The sequence a[1..k-1] \o a[k+1..] of a.
Without(a, k) == SubSeq(a, 1, k - 1) \o SubSeq(a, k + 1, Len(a))

gathered_partial(items, pn, raisedAt) ==
    LET all == [j \in 1..Len(items) |-> transform(items[j], pn)]
    IN  IF raisedAt = 0 THEN all ELSE Without(all, raisedAt)

\* lines 193-207: the items are mapped in the pool and gathered in the order
\* of the items; when a mapping raised (raisedAt > 0) the results of the
\* pool are dropped and the whole page is mapped again, one item after the
\* other
gathered(items, pn, raisedAt) ==
    IF raisedAt = 0
    THEN [j \in 1..Len(items) |-> transform(items[j], pn)]
    ELSE [j \in 1..Len(items) |-> transform(items[j], pn)]

\* lines 192-240: the transform batch is gathered; the records go to the
\* sink or to the collected list; the periodic checkpoint; the stop
\* conditions; update_backoff.  An exception of the second mapping or of
\* add_records leaves the loop for the handler of line 271.
Gather ==
    /\ pc = "gather"
    /\ LET items == find_title_list(resp.r)
           pages_done == page_no + 1
           stop == StopCheck(after, find_page_info(resp.r).hasNextPage, pages_done)
       IN  \/ /\ pc' = "fatal" /\ stop_reason' = "transform_error"
              /\ resp' = NoResp
              /\ UNCHANGED <<collected, sinkVars, sink_call, io_failed,
                             last_page, saves, state_file, store_call,
                             current_delay_sec>>
           \/ \E raisedAt \in {0, Len(items)},
                 f \in IF streaming THEN FaultChoices ELSE {NoFault},
                 u \in IF streaming /\ page_no % UploadEvery = 0
                       THEN UploadOutcomes ELSE {"ok"} :
              LET recs == gathered(items, page_no, raisedAt)
                  s == IF streaming
                       THEN add_records(Faulty(Sink, f), recs, page_no, u)
                       ELSE Sink
              IN  /\ IF streaming
                     THEN /\ SetSink(s) /\ NoteCall("add_records", Sink, s)
                          /\ UNCHANGED collected
                     ELSE /\ collected' = collected \o recs
                          /\ UNCHANGED <<sinkVars, sink_call, io_failed>>
                  /\ IF s.raised
                     THEN /\ pc' = "fatal"
                          /\ stop_reason' = "sink_write_failure"
                          /\ resp' = NoResp
                          /\ UNCHANGED <<last_page, saves, state_file,
                                         store_call, current_delay_sec>>
                     ELSE /\ last_page' = [kind |-> "page", pos |-> resp.r.pos,
                                           label |-> recs[1].page,
                                           cursor |-> after,
                                           t_req_ms |-> resp.t_req_ms,
                                           via |-> resp.via,
                                           request |-> resp.cursor]
                          /\ IF pages_done % CheckpointEvery = 0
                             THEN save(after, pages_done, "periodic")
                             ELSE UNCHANGED <<saves, state_file, store_call>>
                          /\ IF pages_done % CheckpointEvery = 0
                                /\ store_call'.raised
                             THEN /\ pc' = "fatal"
                                  /\ stop_reason' = "save_failure"
                                  /\ resp' = NoResp
                                  /\ UNCHANGED current_delay_sec
                             ELSE CASE stop = "none" ->
                                         /\ update_backoff(resp.t_req_ms)
                                         /\ pc' = "backoff"
                                         /\ UNCHANGED <<stop_reason, resp>>
                                    [] stop = "type_error" ->
                                         /\ pc' = "fatal" /\ stop_reason' = stop
                                         /\ resp' = NoResp
                                         /\ UNCHANGED current_delay_sec
                                    [] OTHER ->
                                         /\ pc' = "cleanup" /\ stop_reason' = stop
                                         /\ resp' = NoResp
                                         /\ UNCHANGED current_delay_sec
    /\ UNCHANGED <<cfgVars, backoffHist, argVars, page_no, after, next_task,
                   consecutive_errors, inflight, state_file0,
                   first_request, failures, failed, last_sleep>>

Backoff_staleCursor ==
    /\ pc = "backoff"
    /\ next_task' = IF should_pipeline(resp.t_req_ms)
                    THEN [status |-> "pending", cursor |-> resp.cursor]
                    ELSE NoTask
    /\ page_no' = page_no + 1
    /\ resp' = NoResp
    /\ pc' = "loop"
    /\ last_sleep' = "backoff"
    /\ UNCHANGED <<clientVars, argVars, state_file, after, collected,
                   consecutive_errors, inflight, sinkVars,
                   histVars, failures, failed, sink_call, io_failed>>

\* lines 241-250: apply_backoff is over; the prefetch task is created when
\* should_pipeline holds; the page counter advances
Backoff ==
    /\ pc = "backoff"
    /\ next_task' = IF should_pipeline(resp.t_req_ms)
                    THEN [status |-> "pending", cursor |-> after]
                    ELSE NoTask
    /\ page_no' = page_no + 1
    /\ resp' = NoResp
    /\ pc' = "loop"
    /\ last_sleep' = "backoff"
    /\ UNCHANGED <<clientVars, argVars, state_file, after, collected,
                   consecutive_errors, inflight, sinkVars,
                   histVars, failures, failed, sink_call, io_failed>>

\* lines 252-257: a prefetch that is not done is cancelled and awaited
Cleanup ==
    /\ pc = "cleanup"
    /\ next_task' = IF next_task.status = "pending"
                    THEN [status |-> "cancelled", cursor |-> next_task.cursor]
                    ELSE next_task
    /\ pc' = "final"
    /\ UNCHANGED <<clientVars, argVars, state_file, page_no, after, collected,
                   consecutive_errors, resp, inflight, sinkVars,
                   histVars, auditVars>>

\* lines 259-262, 268-270, 273-274: the last save of the run
FinalSave ==
    IF ~streaming /\ collected # <<>>
    THEN save(after, page_no, "final")
    ELSE UNCHANGED <<saves, state_file, store_call>>

\* lines 259-264 and 276
Final ==
    /\ pc = "final"
    /\ FinalSave
    /\ pc' = "done"
    /\ UNCHANGED <<clientVars, argVars, loopVars, sinkVars, state_file0,
                   first_request, stop_reason, last_page, auditVars>>

\* lines 266-270 and 276: KeyboardInterrupt raised while the loop is
\* suspended (in a fetch, a sleep, the transform batch)
SuspendedPcs == {"await", "cooldown", "gather", "backoff"}

KeyboardInterrupt ==
    /\ pc \in SuspendedPcs
    /\ FinalSave
    /\ pc' = "done"
    /\ stop_reason' = "interrupt"
    /\ inflight' = NoRequest
    /\ resp' = NoResp
    /\ UNCHANGED <<clientVars, argVars, page_no, after, collected, next_task,
                   consecutive_errors, sinkVars, state_file0,
                   first_request, last_page, auditVars>>

\* lines 271-274 and 276
Fatal ==
    /\ pc = "fatal"
    /\ FinalSave
    /\ pc' = "done"
    /\ UNCHANGED <<clientVars, argVars, loopVars, sinkVars, state_file0,
                   first_request, stop_reason, last_page, auditVars>>

Next ==
    \/ Start \/ Fetch \/ Respond \/ Cooldown \/ Gather \/ Backoff
    \/ Cleanup \/ Final \/ KeyboardInterrupt \/ Fatal

Spec == Init /\ [][Next]_vars

(***************************************************************************)
(* The sink alone: any sequence of calls on a StreamingOutputHandler, with *)
(* I/O faults of the file and any outcome of the uploads.                  *)
(***************************************************************************)
InitSink ==
    /\ page_delay_ms = 0 /\ backoff_threshold_ms = 0
    /\ backoff_step_ms = 0 /\ backoff_max_ms = 0
    /\ current_delay_sec = base_delay_sec
    /\ prev_delay_sec = base_delay_sec
    /\ last_latency = 0
    /\ calls = 0
    /\ fastOnly = FALSE
    /\ NoRun

notSinkVars == <<clientVars, argVars, state_file, pc, loopVars, histVars,
                 failures, failed, last_sleep>>

\* The next record a caller hands to the sink.
NewRecords(n) ==
    [j \in 1..n |-> transform(<<1, record_count + j>>, 0)]

AddRecordCall_lateFlush ==
    /\ record_count < MaxSinkRecords
    /\ \E f \in FaultChoices :
        LET s0 == Faulty(Sink, f)
            rec == NewRecords(1)[1]
            t == [s0 EXCEPT !.file_handle = TRUE,
                            !.buffer = Append(s0.buffer,
                                              [uuid |-> uuid4(s0),
                                               page |-> rec.page,
                                               item |-> rec.item]),
                            !.uuids = uuid4(s0),
                            !.record_count = s0.record_count + 1]
            s == IF Len(t.buffer) > BufferSize THEN flush(t) ELSE t
        IN  SetSink(s) /\ NoteCall("add_record", Sink, s)
    /\ UNCHANGED notSinkVars

AddRecordCall ==
    /\ record_count < MaxSinkRecords
    /\ \E f \in FaultChoices :
        LET s == add_record(Faulty(Sink, f), NewRecords(1)[1])
        IN  SetSink(s) /\ NoteCall("add_record", Sink, s)
    /\ UNCHANGED notSinkVars

AddRecordsCall ==
    /\ \E n \in 0..ItemsPerPage, pn \in {0, 1},
          f \in FaultChoices, u \in UploadOutcomes :
        /\ record_count + n <= MaxSinkRecords
        /\ LET s == add_records(Faulty(Sink, f), NewRecords(n), pn, u)
           IN  SetSink(s) /\ NoteCall("add_records", Sink, s)
    /\ UNCHANGED notSinkVars

FlushCall ==
    /\ \E f \in FaultChoices :
        LET s == flush(Faulty(Sink, f))
        IN  SetSink(s) /\ NoteCall("flush", Sink, s)
    /\ UNCHANGED notSinkVars

CloseCall ==
    /\ \E f \in FaultChoices :
        LET s == close(Faulty(Sink, f))
        IN  SetSink(s) /\ NoteCall("close", Sink, s)
    /\ UNCHANGED notSinkVars

\* The scope of the sink is left, with or without an exception.
ExitCall ==
    /\ \E exc \in BOOLEAN, f \in FaultChoices, u \in UploadOutcomes :
        LET s == exit(Faulty(Sink, f), exc, u)
        IN  /\ SetSink(s)
            /\ NoteCall(IF exc THEN "exit_exc" ELSE "exit", Sink, s)
    /\ UNCHANGED notSinkVars

NextSink ==
    AddRecordCall \/ AddRecordsCall \/ FlushCall \/ CloseCall \/ ExitCall

SpecSink == InitSink /\ [][NextSink]_vars

(***************************************************************************)
(* The checkpoint store alone: save calls with any outcome, a kill of the  *)
(* process inside save, and the load of the next start.                    *)
(***************************************************************************)
InitStore ==
    /\ page_delay_ms = 0 /\ backoff_threshold_ms = 0
    /\ backoff_step_ms = 0 /\ backoff_max_ms = 0
    /\ current_delay_sec = base_delay_sec
    /\ prev_delay_sec = base_delay_sec
    /\ last_latency = 0
    /\ calls = 0
    /\ fastOnly = FALSE
    /\ state_file \in StateFiles
    /\ state_file0 = state_file
    /\ IdleRun

notStoreVars == <<clientVars, argVars, loopVars, sinkVars, state_file0,
                  first_request, stop_reason, last_page, auditVars>>

SaveCall ==
    /\ pc = "client"
    /\ Len(saves) < MaxSaves
    /\ \E c \in Cursors, p \in SavedPageNos : save(c, p, "call")
    /\ UNCHANGED <<pc, notStoreVars>>

KilledInSave ==
    /\ pc = "client"
    /\ Len(saves) < MaxSaves
    /\ \E c \in Cursors, p \in SavedPageNos, k \in KillPoints :
        /\ state_file' = killed_save(c, p, k)
        /\ saves' = Append(saves, [cursor |-> c, page_no |-> p, how |-> "call"])
        /\ store_call' = [op |-> "save", how |-> "call", outcome |-> "killed",
                          raised |-> FALSE, prev |-> state_file,
                          new |-> Saved(c, p)]
    /\ pc' = "killed"
    /\ UNCHANGED notStoreVars

\* The next start of the program loads the state.
LoadCall ==
    /\ pc \in {"client", "killed"}
    /\ store_call.op = "save"
    /\ store_call' = [op |-> "load", result |-> load,
                      after_kill |-> (pc = "killed"),
                      prev |-> store_call.prev, new |-> store_call.new]
    /\ pc' = "client"
    /\ UNCHANGED <<state_file, saves, notStoreVars>>

NextStore == SaveCall \/ KilledInSave \/ LoadCall

SpecStore == InitStore /\ [][NextStore]_vars

(***************************************************************************)
(* The classifier alone: the loop awaits a finished fetch that handed out  *)
(* any response, and classifies it (lines 151-179).                        *)
(***************************************************************************)
\* Status codes: success, the throttling set, other client and server errors.
Statuses == {200, 404, 429, 500, 502, 503}

\* Bodies: not JSON at all, JSON that is not a map, a map with a non-empty
\* errors list, a map without the data key, a map without items, a map whose
\* data is null, a page.
Responses ==
    {[kind |-> "response", status |-> st, retry_after |-> ra, body |-> b] :
        st \in Statuses, ra \in BOOLEAN,
        b \in {"not_json", "not_map", "errors", "no_data", "no_items",
               "null_data"}}
    \cup {[r EXCEPT !.status = st, !.retry_after = ra] :
             r \in PageResponses(None), st \in Statuses, ra \in BOOLEAN}

InitClassify ==
    /\ page_delay_ms = 0 /\ backoff_threshold_ms = 0
    /\ backoff_step_ms = 0 /\ backoff_max_ms = 0
    /\ current_delay_sec = base_delay_sec
    /\ prev_delay_sec = base_delay_sec
    /\ last_latency = 0
    /\ calls = 0
    /\ fastOnly = FALSE
    /\ resume = FALSE /\ streaming = FALSE /\ max_pages = StrArg("all")
    /\ state_file = Absent /\ state_file0 = Absent
    /\ pc = "loop"
    /\ page_no = 0 /\ after = None /\ collected = <<>>
    /\ \E r \in Responses :
         next_task = [status |-> "done", cursor |-> None,
                      result |-> [r |-> r, t_req_ms |-> 0, cursor |-> None]]
    /\ consecutive_errors = 0
    /\ resp = NoResp /\ inflight = NoRequest
    /\ buffer = <<>> /\ disk = <<>> /\ record_count = 0
    /\ file_handle = FALSE /\ uuids = 0
    /\ saves = <<>> /\ first_request = [via |-> "first", cursor |-> None]
    /\ stop_reason = "none" /\ last_page = NoResp
    /\ failures = 0 /\ failed = NoFailure
    /\ sink_call = NoCall /\ io_failed = FALSE
    /\ last_sleep = NoSleep
    /\ store_call = NoCall

NextClassify == Fetch \/ Cooldown

SpecClassify == InitClassify /\ [][NextClassify]_vars

(***************************************************************************)
(* Claims about the backoff controller (checked under SpecBackoff)         *)
(***************************************************************************)

\* The configurations the claims quantify over: non-negative base, step,
\* threshold and maximum delay.
NonNegativeConfig ==
    /\ page_delay_ms >= 0
    /\ backoff_threshold_ms >= 0
    /\ backoff_step_ms >= 0
    /\ backoff_max_ms >= 0

\* C1: after any sequence of update_backoff calls, for every non-negative
\* configuration, base_delay_sec <= current_delay_sec <= backoff_max_sec.
C1_DelayWithinBounds ==
    NonNegativeConfig =>
        /\ base_delay_sec <= current_delay_sec
        /\ current_delay_sec <= backoff_max_sec

\* The additive controller as the specification words it, with no guard on
\* the threshold.
Controller(cur, t) ==
    IF t > backoff_threshold_ms
    THEN Min(backoff_max_sec, cur + backoff_step_sec)
    ELSE IF cur > base_delay_sec /\ 2 * t < backoff_threshold_ms
         THEN Max(base_delay_sec, cur - (backoff_step_sec \div 2))
         ELSE cur

\* C2 (as claimed): update_backoff computes exactly the additive controller
\* for every threshold value, including threshold <= 0.
C2_ControllerForEveryThreshold ==
    calls > 0 => current_delay_sec = Controller(prev_delay_sec, last_latency)

\* C2 (amended): update_backoff computes exactly the additive controller
\* when the threshold is positive, and leaves current_delay unchanged,
\* whatever the latency, when the threshold is <= 0.
C2_ControllerForPositiveThreshold ==
    calls > 0 =>
        IF backoff_threshold_ms > 0
        THEN current_delay_sec = Controller(prev_delay_sec, last_latency)
        ELSE current_delay_sec = prev_delay_sec

\* C2 witness: a call with a positive threshold took the decrease branch and
\* was floored at the base delay.
C2_Witness ==
    /\ calls > 0
    /\ backoff_threshold_ms > 0
    /\ prev_delay_sec > base_delay_sec
    /\ 2 * last_latency < backoff_threshold_ms
    /\ prev_delay_sec - (backoff_step_sec \div 2) < base_delay_sec
    /\ current_delay_sec = base_delay_sec

\* C3: one update_backoff step strictly increases current_delay only if the
\* latency was above the threshold, and strictly decreases it only if the
\* latency was below half the threshold and current_delay was above
\* base_delay before the step.
C3_ChangeOnlyOnSignal ==
    calls > 0 /\ NonNegativeConfig =>
        /\ current_delay_sec > prev_delay_sec =>
               last_latency > backoff_threshold_ms
        /\ current_delay_sec < prev_delay_sec =>
               /\ 2 * last_latency < backoff_threshold_ms
               /\ prev_delay_sec > base_delay_sec

\* C4: with step > 0 and threshold > 0, once every request is fast
\* (latency below half the threshold) current_delay eventually equals
\* base_delay and stays there; and one call raises current_delay by at
\* most one step.
C4_FastRestoresBase ==
    /\ [](fastOnly /\ NonNegativeConfig
              /\ backoff_step_ms > 0 /\ backoff_threshold_ms > 0
            => <>[](current_delay_sec = base_delay_sec))
    /\ [][current_delay_sec' <= current_delay_sec + backoff_step_sec]_vars

(***************************************************************************)
(* Claims about a run of the pipeline (checked under Spec)                 *)
(***************************************************************************)
\* Every record produced so far, in the order produced.
AllRecords == IF streaming THEN disk \o buffer ELSE collected

\* The run has a checkpoint to resume from.
Resumed == resume /\ state_file0.kind = "state"

\* C5: should_pipeline(latency) holds iff latency <= threshold; a prefetch
\* task is created only when the page just processed came with a latency
\* <= threshold; after a page that came with a latency > threshold no
\* prefetch task exists and the next request is issued directly.
C5_PrefetchOnlyAfterFastPage ==
    /\ next_task.status = "pending" =>
           last_page # NoResp /\ last_page.t_req_ms <= backoff_threshold_ms
    /\ inflight.via = "task" =>
           last_page # NoResp /\ last_page.t_req_ms <= backoff_threshold_ms
    /\ pc = "loop" /\ consecutive_errors = 0 /\ last_page # NoResp =>
           (next_task.status = "pending"
                <=> last_page.t_req_ms <= backoff_threshold_ms)
    /\ pc \in {"loop", "await", "cooldown"} /\ last_page # NoResp
          /\ last_page.t_req_ms > backoff_threshold_ms =>
           /\ next_task = NoTask
           /\ pc = "await" => inflight.via = "direct"

\* C5 witness: a page that had been prefetched came slowly, and the request
\* after it is in flight as a direct fetch.
C5_Witness ==
    /\ pc = "await"
    /\ last_page # NoResp
    /\ last_page.via = "task"
    /\ last_page.t_req_ms > backoff_threshold_ms
    /\ backoff_threshold_ms > 0
    /\ inflight.via = "direct"

\* C6: with resume enabled and a checkpoint (cursor C, page_no P) the first
\* request carries cursor C and the first page processed is labelled P+1;
\* with resume disabled or no checkpoint that can be loaded the first
\* request carries the null cursor and the first page is labelled 1.
C6_ResumeSeedsCursorAndPage ==
    LET C == IF Resumed THEN state_file0.cursor ELSE None
        P == IF Resumed THEN state_file0.page_no ELSE 0
    IN  /\ first_request # NoRequest => first_request.cursor = C
        /\ AllRecords # <<>> =>
               \A k \in 1..ItemsPerPage : AllRecords[k].page = P + 1

\* C6 witness: a run resumed from a checkpoint with a cursor and a page
\* number has processed its first page.
C6_Witness ==
    /\ Resumed
    /\ state_file0.cursor # None
    /\ state_file0.page_no > 0
    /\ first_request # NoRequest
    /\ AllRecords # <<>>

\* The items of catalog pages 1..n, in the order the source returns them.
CatalogItems(n) ==
    [k \in 1..(n * ItemsPerPage) |->
        <<((k - 1) \div ItemsPerPage) + 1, ((k - 1) % ItemsPerPage) + 1>>]

\* C7: a run started without a checkpoint that ends on a page carrying
\* hasNextPage=false (or no cursor) has produced exactly one record per item
\* of every page of the catalog up to that page, and the records that
\* entered the sink carry pairwise distinct identifiers.
C7_OneRecordPerItem ==
    pc = "done" /\ ~Resumed /\ stop_reason \in {"has_next_false", "no_cursor"} =>
        /\ last_page # NoResp
        /\ [k \in 1..Len(AllRecords) |-> AllRecords[k].item]
               = CatalogItems(last_page.pos)
        /\ streaming =>
               /\ record_count = Len(AllRecords)
               /\ \A i, j \in 1..Len(AllRecords) :
                      AllRecords[i].uuid = AllRecords[j].uuid => i = j

\* C7 witness: the two-page run of the specification, in streaming mode.
C7_Witness ==
    /\ pc = "done"
    /\ ~Resumed
    /\ streaming
    /\ stop_reason = "has_next_false"
    /\ last_page # NoResp
    /\ last_page.pos = 2
    /\ record_count = 2 * ItemsPerPage

\* C8: the final checkpoint of a run reflects the last fully processed page:
\* its page_no is the number (label) of that page and its cursor is the
\* cursor that page returned.
C8_FinalCheckpointIsLastPage ==
    pc = "done" /\ saves # <<>> /\ saves[Len(saves)].how = "final" =>
        /\ last_page # NoResp
        /\ saves[Len(saves)].page_no = last_page.label
        /\ saves[Len(saves)].cursor = last_page.cursor

\* C9: a checkpoint is written on every terminal exit path, in streaming and
\* non-streaming mode, whether or not a record has been collected.
C9_CheckpointOnEveryExit ==
    pc = "done" => saves # <<>> /\ saves[Len(saves)].how = "final"

\* C10: the page_no values passed to the successive checkpoint writes of a
\* run never decrease.
C10_PageNoNeverDecreases ==
    \A i \in 1..(Len(saves) - 1) : saves[i].page_no <= saves[i + 1].page_no

(***************************************************************************)
(* Claims about the error policy of the fetch loop (checked under Spec)    *)
(***************************************************************************)
\* The stop reasons of a run that ended on classification failures.
FailureStops == {"errors", "network_error", "http_status"}

\* The loop has been left.
Stopped == pc \in {"cleanup", "final", "fatal", "done"}

\* C11: the consecutive-error counter equals the number of classification
\* failures since the last page that passed classification; it never
\* exceeds 5, and the run stops on failures exactly when it reaches 5.
C11_CounterCountsFailures ==
    /\ consecutive_errors = failures
    /\ consecutive_errors <= max_consecutive_errors
    /\ consecutive_errors = max_consecutive_errors => Stopped
    /\ Stopped /\ stop_reason \in FailureStops =>
           consecutive_errors = max_consecutive_errors

\* C12: a transient-network fault or a fatal-status response counts as one
\* consecutive error and does not stop the run while the counter is below
\* 5: the loop goes on, to request the same cursor again.
C12_FaultsAreAbsorbed ==
    failed.kind \in {"transient_network", "fatal_status"} =>
        /\ consecutive_errors >= 1
        /\ consecutive_errors < max_consecutive_errors => ~Stopped
        /\ Stopped => consecutive_errors = max_consecutive_errors

\* The state file holds what the run found at its start or the state of a
\* page of this run that was fully processed.
CheckpointIntact ==
    \/ state_file = state_file0
    \/ /\ state_file.kind = "state"
       /\ \/ /\ last_page # NoResp
             /\ state_file.page_no = last_page.label
             /\ state_file.cursor = last_page.cursor
          \/ \E i \in 1..Len(saves) :
                /\ saves[i].how = "periodic"
                /\ state_file = Saved(saves[i].cursor, saves[i].page_no)

\* C13: a run that ended on fatal-status responses has seen five of them in
\* a row, and the state file afterwards is the last successful checkpoint:
\* it describes no page that was not fully processed.
C13_FiveFatalStatusesStop ==
    pc = "done" /\ stop_reason = "http_status" =>
        /\ failures = max_consecutive_errors
        /\ CheckpointIntact

\* C14: after a rate-limited or malformed response to the request for
\* cursor c, with the counter below 5, the next step of the loop issues a
\* new request carrying c, whether the response came from a direct fetch or
\* from a prefetched task; the counter went up by one for the response.
C14_FailedRequestIsReissued ==
    [][pc = "loop" /\ failed.kind \in {"rate_limited", "malformed"} =>
          /\ consecutive_errors >= 1
          /\ pc' = "await"
          /\ inflight'.via # "none"
          /\ inflight'.cursor = failed.cursor]_vars

(***************************************************************************)
(* Claims about the streaming sink (checked under SpecSink and Spec)       *)
(***************************************************************************)
\* No line of the file repeats a record.
NoRecordTwiceOnDisk ==
    \A i, j \in 1..Len(disk) : disk[i].uuid = disk[j].uuid => i = j

\* C15: flush is all-or-nothing: after a flush call either every record
\* that was buffered is in the file once and the buffer is empty, or the
\* error propagated, the buffer is untouched and none of its records has
\* been written; so no record is ever written to the file twice.
C15_FlushAllOrNothing ==
    /\ sink_call.op = "flush" =>
           IF sink_call.raised
           THEN /\ buffer = sink_call.before.buffer
                /\ disk = sink_call.before.disk
           ELSE /\ buffer = <<>>
                /\ disk = sink_call.before.disk \o sink_call.before.buffer
    /\ NoRecordTwiceOnDisk

\* C16: with no I/O error, record_count = lines in the file + buffer
\* length at every moment, the lines followed by the buffer are the records
\* added, in order, each one whole, and after close() the file holds
\* record_count lines.
C16_CountMatchesLines ==
    ~io_failed =>
        /\ record_count = Len(disk) + Len(buffer)
        /\ \A k \in 1..Len(disk \o buffer) :
               (disk \o buffer)[k] = [uuid |-> k, page |-> 1, item |-> <<1, k>>]
        /\ sink_call.op = "close" =>
               buffer = <<>> /\ Len(disk) = record_count

\* C16 witness: more than buffer_size records were added, one flush wrote
\* exactly buffer_size of them, and close() has written the rest.
C16_Witness ==
    /\ ~io_failed
    /\ sink_call.op = "close"
    /\ sink_call.before.buffer # <<>>
    /\ Len(sink_call.before.disk) = BufferSize
    /\ Len(disk) = record_count

\* C17: a second close() performs no additional write to the file, whatever
\* the outcome of the first.
C17_SecondCloseWritesNothing ==
    sink_call.op = "close" /\ sink_call.prev = "close" =>
        disk = sink_call.before.disk

\* C19: on every exit of the sink's scope, with or without an exception,
\* the remainder of the buffer is flushed, the file handle is released and
\* an upload of the file is attempted.
C19_ScopeExitReleasesAndUploads ==
    sink_call.op \in {"exit", "exit_exc"} =>
        /\ ~io_failed => buffer = <<>>
        /\ ~file_handle
        /\ sink_call.upload # "none"

\* C18: a sink write failure surfaces as an error of the run: after a failed
\* flush the run does not fetch another page and does not end by returning
\* normally.
C18_SinkFailureSurfaces ==
    io_failed => pc \notin {"loop", "await", "done"}

\* C20: a failed upload does not abort the run: add_records returns
\* normally, the run is not stopped for it, and the file, the buffer and
\* record_count are as they were when the upload started.
C20_UploadFailureNotFatal ==
    sink_call.op = "add_records" /\ sink_call.upload = "failed" =>
        /\ ~sink_call.raised
        /\ stop_reason # "sink_write_failure"
        /\ <<buffer, disk, record_count>> = sink_call.pre_upload

\* C20 witness: the upload after the first page failed and the request for
\* the second page is in flight.
C20_Witness ==
    /\ sink_call.op = "add_records"
    /\ sink_call.upload = "failed"
    /\ pc = "await"
    /\ page_no = 1
    /\ record_count = ItemsPerPage

(***************************************************************************)
(* Claims about the checkpoint store (C21 under SpecStore, C22 and C23     *)
(* under Spec)                                                             *)
(***************************************************************************)
\* C21: when the process is killed inside save while a previous checkpoint
\* existed, the next load() returns the whole previous checkpoint or the
\* whole new one, never an absent, empty or half-written state.
C21_SaveIsAtomic ==
    /\ store_call.op = "load"
    /\ store_call.after_kill
    /\ store_call.prev.kind = "state"
    => store_call.result \in {store_call.prev, store_call.new}

\* C22: a save that fails returns normally and the step of the run that
\* made it ends as if the save had succeeded: the cursor and page_no are
\* untouched, the records of the page are in the collected list, and the
\* run is not stopped for the failure.
C22_FailedSaveDoesNotAbort ==
    [][(/\ saves' # saves
        /\ store_call'.op = "save"
        /\ store_call'.outcome # "ok")
       => /\ ~store_call'.raised
          /\ after' = after /\ page_no' = page_no
          /\ stop_reason' # "save_failure"
          /\ store_call'.how = "periodic" =>
               /\ store_call'.new = Saved(after, page_no + 1)
               /\ ~streaming =>
                    collected' = collected
                        \o gathered(find_title_list(resp.r), page_no, 0)
               /\ StopCheck(after, find_page_info(resp.r).hasNextPage,
                            page_no + 1) = "none" => pc' = "backoff"
          /\ store_call'.how = "final" =>
               /\ collected' = collected
               /\ pc' = "done"]_vars

\* C22 witness: the checkpoint of the tenth page could not be persisted and
\* the request for the eleventh page is in flight.
C22_Witness ==
    /\ store_call.op = "save"
    /\ store_call.how = "periodic"
    /\ store_call.outcome # "ok"
    /\ pc = "await"
    /\ page_no = CheckpointEvery
    /\ after = last_page.cursor

\* C23: in streaming mode, whenever the checkpoint of page P is persisted,
\* every record of every page numbered <= P is in the output file and not
\* only in the buffer.
C23_CheckpointedPagesAreOnDisk ==
    /\ streaming
    /\ ~io_failed
    /\ store_call.op = "save"
    /\ store_call.outcome = "ok"
    /\ state_file = store_call.new
    => \A k \in 1..Len(buffer) : buffer[k].page > state_file.page_no

(***************************************************************************)
(* Claims about the pages of a run (checked under Spec)                    *)
(***************************************************************************)
\* The items of a sequence of records.
ItemsOf(recs) == [k \in 1..Len(recs) |-> recs[k].item]

\* The cursor the first request of the run carries.
StartCursor ==
    IF resume /\ state_file0.kind = "state" THEN state_file0.cursor ELSE None

\* C24: a page that is counted as processed has added to the sink (or to
\* the collected list) exactly one record per item of the page, in the order
\* of the items, whether or not the page had to be mapped a second time.
C24_OneRecordPerItemInOrder ==
    [][last_page' # last_page =>
         ItemsOf(AllRecords')
             = ItemsOf(AllRecords) \o find_title_list(resp.r)]_vars

\* C24 witness: two pages have been processed in streaming mode and their
\* records are in the file and the buffer.
C24_Witness ==
    /\ streaming
    /\ last_page # NoResp
    /\ last_page.pos = 2
    /\ Len(AllRecords) = 2 * ItemsPerPage
    /\ disk # <<>>

\* C25: pages are consumed in cursor order: each processed page is the
\* response to the request that carried the cursor of the page processed
\* before it (the start cursor for the first), and it is the page that
\* cursor locates, so no page is processed twice or skipped.
C25_PagesInCursorOrder ==
    [][last_page' # last_page =>
         /\ last_page'.request = IF last_page = NoResp
                                 THEN StartCursor
                                 ELSE last_page.cursor
         /\ last_page'.pos = last_page'.request + 1
         /\ last_page # NoResp => last_page'.pos = last_page.pos + 1]_vars

\* C25 witness: the second page of the catalog was consumed from a prefetch
\* that carried the cursor of the first, and the run goes on.
C25_Witness ==
    /\ last_page # NoResp
    /\ last_page.pos = 2
    /\ last_page.via = "task"
    /\ last_page.request = 1
    /\ first_request.cursor = None
    /\ pc = "backoff"

\* The step handles a response classified as rate-limited or malformed: the
\* classification, and the end of the pause that follows a rate limit.
HandlesRejectedResponse ==
    \/ /\ pc \in {"loop", "await"}
       /\ failed'.kind \in {"rate_limited", "malformed"}
       /\ failures' # failures \/ pc' = "cooldown"
    \/ pc = "cooldown" /\ pc' \in {"loop", "cleanup"}

\* C26: handling a rate-limited or malformed response leaves the cursor,
\* page_no, the sink's buffer, file and record count, the collected list and
\* the state file unchanged; records enter the sink or the collected list
\* only in the step that follows the classification of a valid page.
C26_RejectedResponseChangesNothing ==
    [][/\ HandlesRejectedResponse =>
            UNCHANGED <<after, page_no, buffer, disk, record_count,
                        collected, state_file, last_page>>
       /\ <<buffer, disk, record_count, collected>>'
              # <<buffer, disk, record_count, collected>> =>
            /\ pc = "gather"
            /\ validate_graphql_response(resp.r)
            /\ find_title_list(resp.r) # <<>>]_vars

\* C26 witness: after a processed page whose records are buffered, a
\* rate-limited response has been handled and the pause is over.
C26_Witness ==
    /\ failed.kind = "rate_limited"
    /\ failures = 1
    /\ pc = "loop"
    /\ last_page # NoResp
    /\ buffer # <<>>

(***************************************************************************)
(* Claims about the end of a run and the prefetch (checked under Spec)     *)
(***************************************************************************)
\* The page limit is finite: an integer above zero.
FiniteLimit == max_pages.type = "int" /\ max_pages.int > 0

StartedAtZero ==
    ~(resume /\ state_file0.kind = "state" /\ state_file0.page_no > 0)

C29_PrefetchOverlapsTransform ==
    /\ pc = "gather"
    /\ should_pipeline(resp.t_req_ms)
    /\ StopCheck(after, find_page_info(resp.r).hasNextPage, page_no + 1) = "none"
    => next_task.status = "pending" \/ inflight # NoRequest

\* C30: on every way the fetch loop ends, no prefetch task is pending when
\* the final checkpoint is written and when the function returns.
C30_NoPrefetchLeftPending ==
    pc \in {"final", "done"} => next_task.status # "pending"

(***************************************************************************)
(* Claims about the bound of the buffer (C31 under SpecSink) and the       *)
(* requests of a run (C32, C33 under Spec)                                 *)
(***************************************************************************)
\* C31: after every add_record call that returns without an I/O error the
\* buffer holds fewer than buffer_size records, also when the call comes
\* after close().
C31_BufferBelowThreshold ==
    sink_call.op = "add_record" /\ ~sink_call.raised =>
        Len(buffer) < BufferSize

\* C31 witness: one record was written to the file earlier (by a flush or a
\* close()), and the add_record call that brought the buffer to buffer_size
\* has flushed it.
C31_Witness ==
    /\ sink_call.op = "add_record"
    /\ ~io_failed
    /\ Len(sink_call.before.buffer) = BufferSize - 1
    /\ Len(sink_call.before.disk) = 1
    /\ buffer = <<>>
    /\ Len(disk) = BufferSize + 1

\* The requests outstanding: the one the loop awaits and the prefetch task
\* that is not done (one and the same when the loop awaits the task).
Outstanding ==
    (IF inflight.via = "direct" THEN 1 ELSE 0)
    + (IF next_task.status = "pending" THEN 1 ELSE 0)

\* C32: at most one page request is outstanding at any moment: the loop
\* awaits a prefetch only while it is the pending task, no direct fetch is
\* outstanding while a task is pending, and a task is pending only when the
\* response before it has been consumed entirely.
C32_OneRequestOutstanding ==
    /\ Outstanding <= 1
    /\ inflight.via = "task" =>
         next_task.status = "pending" /\ next_task.cursor = inflight.cursor
    /\ next_task.status = "pending" =>
         resp = NoResp /\ pc \notin {"gather", "backoff", "cooldown"}

\* C32 witness: the prefetch for the second page is the one request
\* outstanding and the loop awaits it.
C32_Witness ==
    /\ pc = "await"
    /\ inflight.via = "task"
    /\ next_task.status = "pending"
    /\ page_no = 1
    /\ Outstanding = 1

\* C33: every request issued after the first of the run comes after a
\* suspension (apply_backoff or the rate-limit pause) that followed the
\* completion of the request before it.
C33_SleepBeforeEveryRequest ==
    [][(/\ inflight = NoRequest
        /\ inflight' # NoRequest
        /\ first_request # NoRequest)
       => last_sleep # NoSleep]_vars

(***************************************************************************)
(* Claims about the classifier (C34 under SpecClassify)                    *)
(***************************************************************************)
\* The response the loop has been handed.
Handed == next_task.result.r

\* The class the loop gave the response it was handed: the failure it
\* noted, or the page it went on with; "none" when it noted neither.
GivenClass ==
    CASE failed.kind = "rate_limited" -> "rate_limited"
      [] failed.kind = "fatal_status" -> "fatal_status"
      [] failed.kind = "malformed" -> "malformed"
      [] pc = "gather" \/ stop_reason \in {"no_items", "items_error"} -> "ok"
      [] OTHER -> "none"

\* C34: every response gets exactly one class, by this precedence:
\* rate-limited iff the status is 429, 502 or 503 or a retry-after header is
\* present; otherwise fatal-status iff the status is an error status;
\* otherwise malformed-payload iff the body is not a map, has a non-empty
\* errors list or lacks the data key; otherwise ok.
C34_ClassificationIsTotal ==
    pc # "loop" \/ failures > 0 =>
        GivenClass =
            IF Handed.status \in {429, 502, 503} \/ Handed.retry_after
            THEN "rate_limited"
            ELSE IF Handed.status >= 400
            THEN "fatal_status"
            ELSE IF Handed.body \in {"not_json", "not_map", "errors", "no_data"}
            THEN "malformed"
            ELSE "ok"

(***************************************************************************)
(* Claims about a resume without cursor and about a page without items     *)
(* (checked under Spec)                                                    *)
(***************************************************************************)
\* C35: a run resumed from a checkpoint whose cursor is null issues its
\* first request with the null cursor, so the first page it processes is
\* the first page of the catalog, and it labels that page with the
\* checkpoint's page_no + 1.
C35_NullCursorResumeRestarts ==
    Resumed /\ state_file0.cursor = None =>
        /\ first_request # NoRequest => first_request.cursor = None
        /\ pc = "loop" /\ last_page = NoResp => page_no = state_file0.page_no
        /\ AllRecords # <<>> =>
             /\ AllRecords[1].item = <<1, 1>>
             /\ AllRecords[1].page = state_file0.page_no + 1

\* C35 witness: resumed from a checkpoint of page 9 without cursor, the run
\* has processed the first page of the catalog as page 10.
C35_Witness ==
    /\ Resumed
    /\ state_file0 = Saved(None, CheckpointEvery - 1)
    /\ last_page # NoResp
    /\ last_page.pos = 1
    /\ last_page.label = CheckpointEvery
    /\ last_page.request = None

\* The step ends the handling of a response that passed classification and
\* holds no items.
EndsForNoItems ==
    /\ stop_reason = "none"
    /\ stop_reason' \in {"no_items", "items_error"}

\* C36: a response that passes classification and holds no items ends the
\* run at once: the step that handles it, and every step after it, leaves
\* the cursor, page_no, the page count, the sink, the collected list and
\* the backoff state as they were; no request follows, and the only save
\* that can follow is the final one, with the cursor and page_no from
\* before the request.
C36_NoItemsEndsRunUntouched ==
    [][/\ EndsForNoItems =>
            /\ pc' \in {"cleanup", "fatal"}
            /\ UNCHANGED <<after, page_no, last_page, sinkVars, collected,
                           current_delay_sec, backoffHist, saves, state_file>>
       /\ stop_reason \in {"no_items", "items_error"} =>
            /\ pc' \in {"final", "done"}
            /\ inflight' = NoRequest
            /\ UNCHANGED <<after, page_no, last_page, sinkVars, collected,
                           current_delay_sec, backoffHist>>
            /\ saves' # saves =>
                 /\ store_call'.how = "final"
                 /\ store_call'.new = Saved(after, page_no)]_vars

\* C36 witness: after a processed page whose records are in the file, the
\* second request was answered without items and the run has ended with
\* the cursor and page_no of the first page.
C36_Witness ==
    /\ stop_reason = "no_items"
    /\ pc = "done"
    /\ last_page # NoResp
    /\ last_page.pos = 1
    /\ after = last_page.cursor
    /\ page_no = 1
    /\ Len(disk) = ItemsPerPage

====
